---- MODULE Spec2Model ----
(***************************************************************************)
(* Model of the span/offset logic of snorkel/models/context.py:            *)
(* TemporarySpan, Span and the Sentence data they are anchored to.         *)
(* Character and token indices are 0-based as in the Python source; TLA+   *)
(* sequences are 1-based, so element i of a Python list l is l[i + 1].     *)
(* Strings are sequences of one-character strings.                         *)
(***************************************************************************)
EXTENDS Integers, Sequences, FiniteSets, TLC

VARIABLES contexts, spans, last

vars == <<contexts, spans, last>>

----------------------------------------------------------------------------
(* Bounds of the model *)

MaxTextLen == 3      \* len(Sentence.text)
MaxTokens == 2       \* most tokens a Sentence has
MaxSpans == 2        \* most span objects alive
MaxConstructed == 1  \* constructor calls happen while fewer objects than this are alive
MaxSlice == 2        \* magnitude of slice start / stop arguments
NumContexts == 1     \* Sentence objects alive

Alphabet == <<"a", "b", "c", "d", "e", "f">>
LemmaLetters == <<"p", "q", "r", "s", "t", "u">>

Min(a, b) == IF a < b THEN a ELSE b
Max(a, b) == IF a > b THEN a ELSE b

\* Python None for an optional integer: <<>> is None, <<v>> is the integer v
None == <<>>
Some(v) == <<v>>
IsNone(o) == o = <<>>
Val(o) == o[1]

----------------------------------------------------------------------------
(* Python list semantics used by the source *)

\* l[i]: negative i counts from the end, anything outside [-n, n) raises
PyIndex(l, i) ==
  IF 0 <= i /\ i < Len(l) THEN [ok |-> TRUE, val |-> l[i + 1]]
  ELSE IF -Len(l) <= i /\ i < 0 THEN [ok |-> TRUE, val |-> l[Len(l) + i + 1]]
  ELSE [ok |-> FALSE, val |-> 0]

PyClamp(l, x) == IF x < 0 THEN Max(x + Len(l), 0) ELSE Min(x, Len(l))

\* l[lo:hi] with integer lo, hi
PySlice(l, lo, hi) == SubSeq(l, PyClamp(l, lo) + 1, PyClamp(l, hi))

\* hash(x) of a small int: x itself, except hash(-1) == -2
PyHashInt(x) == IF x = -1 THEN -2 ELSE x

RECURSIVE PyJoin(_, _)
\* sep.join(l)
PyJoin(sep, l) ==
  IF Len(l) = 0 THEN <<>>
  ELSE IF Len(l) = 1 THEN l[1]
  ELSE l[1] \o sep \o PyJoin(sep, Tail(l))

----------------------------------------------------------------------------
(* Sentence: text, words, char_offsets, lemmas *)

RECURSIVE IncreasingSeqs(_, _)
\* strictly increasing sequences of length k over lo..MaxTextLen-1
IncreasingSeqs(k, lo) ==
  IF k = 0 THEN {<<>>}
  ELSE UNION {{<<x>> \o t : t \in IncreasingSeqs(k - 1, x + 1)} : x \in lo..(MaxTextLen - 1)}

OffsetSeqs == UNION {IncreasingSeqs(k, 0) : k \in 1..MaxTokens}

SentenceText == SubSeq(Alphabet, 1, MaxTextLen)

\* token i runs from its offset to the character before the next offset
WordAt(text, co, i) ==
  SubSeq(text, co[i] + 1, IF i < Len(co) THEN co[i + 1] ELSE Len(text))

Sentence(co) ==
  [text |-> SentenceText,
   words |-> [i \in 1..Len(co) |-> WordAt(SentenceText, co, i)],
   char_offsets |-> co,
   lemmas |-> [i \in 1..Len(co) |-> <<LemmaLetters[i]>>]]

Sentences == {Sentence(co) : co \in OffsetSeqs}

CtxIds == 1..NumContexts

\* names passed to get_attrib_tokens / get_attrib_span
AttribNames == {"words", "lemmas", "nope"}
HasAttrib(a) == a \in {"words", "lemmas"}
Attrib(ctx, a) == IF a = "words" THEN ctx.words ELSE ctx.lemmas

Metas == {"None", "m"}
Classes == {"TemporarySpan", "Span"}
Seps == {<<" ">>}

----------------------------------------------------------------------------
(* TemporarySpan / Span objects *)

\* TemporarySpan.__init__, inherited by Span: meta defaults to None
NewSpan(cls, context, char_start, char_end, meta) ==
  [cls |-> cls, context |-> context, char_start |-> char_start,
   char_end |-> char_end, meta |-> meta]

RECURSIVE ScanNoStepBack(_, _, _)
\* char_to_word_index returning i instead of i-1 when ci < co
ScanNoStepBack(co, ci, k) ==
  IF k >= Len(co) THEN Len(co) - 1
  ELSE IF ci = co[k + 1] THEN k
  ELSE IF ci < co[k + 1] THEN k
  ELSE ScanNoStepBack(co, ci, k + 1)

RECURSIVE Scan(_, _, _)
\* the for loop of char_to_word_index from index k on
Scan(co, ci, k) ==
  IF k >= Len(co) THEN Len(co) - 1
  ELSE IF ci = co[k + 1] THEN k
  ELSE IF ci < co[k + 1] THEN k - 1
  ELSE Scan(co, ci, k + 1)

char_to_word_index(self, ci) == Scan(contexts[self.context].char_offsets, ci, 0)

\* word_to_char_index reading the list one position too far
word_to_char_index_next(self, wi) == PyIndex(contexts[self.context].char_offsets, wi + 1)

word_to_char_index(self, wi) == PyIndex(contexts[self.context].char_offsets, wi)

get_word_start(self) == char_to_word_index(self, self.char_start)

get_word_end(self) == char_to_word_index(self, self.char_end)

get_n(self) == get_word_end(self) - get_word_start(self) + 1

get_attrib_tokens(self, a) ==
  PySlice(Attrib(contexts[self.context], a), get_word_start(self), get_word_end(self) + 1)

get_attrib_span(self, a, sep) ==
  IF a = "words"
  THEN PySlice(contexts[self.context].text, self.char_start, self.char_end + 1)
  ELSE PyJoin(sep, get_attrib_tokens(self, a))

get_span(self, sep) == get_attrib_span(self, "words", sep)

contains(self, other_span) ==
  other_span.char_start >= self.char_start /\ other_span.char_end <= self.char_end

eq(self, other) ==
  self.context = other.context /\ self.char_start = other.char_start
    /\ self.char_end = other.char_end

hash(self) == self.context + PyHashInt(self.char_start) + PyHashInt(self.char_end)

\* _get_instance without the override in Span
get_instance_base(self, char_start, char_end, context) ==
  NewSpan("TemporarySpan", context, char_start, char_end, "None")

\* TemporarySpan._get_instance / Span._get_instance, dispatched on the class
get_instance(self, char_start, char_end, context) ==
  IF self.cls = "Span"
  THEN NewSpan("Span", context, char_start, char_end, "None")
  ELSE NewSpan("TemporarySpan", context, char_start, char_end, "None")

\* __getitem__ measuring a non-negative stop from the new char_start
getitem_stop_from_new_start(self, key) ==
  LET char_start == IF IsNone(key.start) THEN self.char_start
                    ELSE self.char_start + Val(key.start)
      char_end == IF IsNone(key.stop) THEN self.char_end
                  ELSE IF Val(key.stop) >= 0 THEN char_start + Val(key.stop) - 1
                  ELSE self.char_end + Val(key.stop)
  IN get_instance(self, char_start, char_end, self.context)

\* the slice branch of __getitem__
getitem(self, key) ==
  LET char_start == IF IsNone(key.start) THEN self.char_start
                    ELSE self.char_start + Val(key.start)
      char_end == IF IsNone(key.stop) THEN self.char_end
                  ELSE IF Val(key.stop) >= 0 THEN self.char_start + Val(key.stop) - 1
                  ELSE self.char_end + Val(key.stop)
  IN get_instance(self, char_start, char_end, self.context)

promote(self) == NewSpan("Span", self.context, self.char_start, self.char_end, "None")

----------------------------------------------------------------------------
(* State machine *)

\* record of the last call: its arguments and what it returned
NoCall ==
  [op |-> "none", self |-> 0, other |-> 0, arg |-> 0, name |-> "",
   key |-> [kind |-> "int", start |-> None, stop |-> None, step |-> None],
   status |-> "ok", int |-> 0, bool |-> FALSE, str |-> <<>>, seq |-> <<>>, ref |-> 0]

SpanIds == 1..Len(spans)

OptInts(S) == {None} \cup {Some(v) : v \in S}

Keys ==
  {[kind |-> "slice", start |-> a, stop |-> b, step |-> c] :
     a \in OptInts(0..MaxSlice), b \in OptInts(-MaxSlice..MaxSlice), c \in OptInts({2})}
  \cup {[kind |-> "int", start |-> None, stop |-> None, step |-> None]}

Init ==
  /\ contexts \in [CtxIds -> Sentences]
  /\ spans = <<>>
  /\ last = NoCall

\* the caller is at a call boundary: no returned value is being looked at
Idle == last.op = "none"

\* the caller is done with the value the last call returned
Return ==
  /\ ~Idle
  /\ last' = NoCall
  /\ UNCHANGED <<contexts, spans>>

\* cls(context=c, char_start=cs, char_end=ce, meta=m) by the consumer, with a
\* range inside the text; cls is TemporarySpan or Span (same __init__)
Construct(cls, c, cs, ce, m) ==
  /\ Idle
  /\ Len(spans) < MaxSpans /\ Len(spans) < MaxConstructed
  /\ 0 <= cs /\ cs <= ce /\ ce < Len(contexts[c].text)
  /\ spans' = Append(spans, NewSpan(cls, c, cs, ce, m))
  /\ last' = [NoCall EXCEPT !.op = "__init__", !.ref = Len(spans) + 1]
  /\ UNCHANGED contexts

CharToWordIndex(s, ci) ==
  /\ Idle
  /\ last' = [NoCall EXCEPT !.op = "char_to_word_index", !.self = s, !.arg = ci,
                            !.int = char_to_word_index(spans[s], ci)]
  /\ UNCHANGED <<contexts, spans>>

WordToCharIndex(s, wi) ==
  /\ Idle
  /\ LET r == word_to_char_index(spans[s], wi)
     IN last' = [NoCall EXCEPT !.op = "word_to_char_index", !.self = s, !.arg = wi,
                               !.status = IF r.ok THEN "ok" ELSE "IndexError",
                               !.int = r.val]
  /\ UNCHANGED <<contexts, spans>>

GetWordStart(s) ==
  /\ Idle
  /\ last' = [NoCall EXCEPT !.op = "get_word_start", !.self = s,
                            !.int = get_word_start(spans[s])]
  /\ UNCHANGED <<contexts, spans>>

GetWordEnd(s) ==
  /\ Idle
  /\ last' = [NoCall EXCEPT !.op = "get_word_end", !.self = s,
                            !.int = get_word_end(spans[s])]
  /\ UNCHANGED <<contexts, spans>>

GetN(s) ==
  /\ Idle
  /\ last' = [NoCall EXCEPT !.op = "get_n", !.self = s, !.int = get_n(spans[s])]
  /\ UNCHANGED <<contexts, spans>>

GetAttribTokens(s, a) ==
  /\ Idle
  /\ last' = IF HasAttrib(a)
             THEN [NoCall EXCEPT !.op = "get_attrib_tokens", !.self = s, !.name = a,
                                 !.seq = get_attrib_tokens(spans[s], a)]
             ELSE [NoCall EXCEPT !.op = "get_attrib_tokens", !.self = s, !.name = a,
                                 !.status = "AttributeError"]
  /\ UNCHANGED <<contexts, spans>>

GetAttribSpan(s, a, sep) ==
  /\ Idle
  /\ last' = IF a = "words" \/ HasAttrib(a)
             THEN [NoCall EXCEPT !.op = "get_attrib_span", !.self = s, !.name = a,
                                 !.str = get_attrib_span(spans[s], a, sep)]
             ELSE [NoCall EXCEPT !.op = "get_attrib_span", !.self = s, !.name = a,
                                 !.status = "AttributeError"]
  /\ UNCHANGED <<contexts, spans>>

GetSpan(s, sep) ==
  /\ Idle
  /\ last' = [NoCall EXCEPT !.op = "get_span", !.self = s,
                            !.str = get_span(spans[s], sep)]
  /\ UNCHANGED <<contexts, spans>>

Contains(s, o) ==
  /\ Idle
  /\ last' = [NoCall EXCEPT !.op = "__contains__", !.self = s, !.other = o,
                            !.bool = contains(spans[s], spans[o])]
  /\ UNCHANGED <<contexts, spans>>

Eq(s, o) ==
  /\ Idle
  /\ last' = [NoCall EXCEPT !.op = "__eq__", !.self = s, !.other = o,
                            !.bool = eq(spans[s], spans[o])]
  /\ UNCHANGED <<contexts, spans>>

Hash(s) ==
  /\ Idle
  /\ last' = [NoCall EXCEPT !.op = "__hash__", !.self = s, !.int = hash(spans[s])]
  /\ UNCHANGED <<contexts, spans>>

\* self[key]
GetItem(s, key) ==
  /\ Idle
  /\ IF key.kind = "slice"
     THEN /\ Len(spans) < MaxSpans
          /\ spans' = Append(spans, getitem(spans[s], key))
          /\ last' = [NoCall EXCEPT !.op = "__getitem__", !.self = s, !.key = key,
                                    !.ref = Len(spans) + 1]
     ELSE /\ spans' = spans
          /\ last' = [NoCall EXCEPT !.op = "__getitem__", !.self = s, !.key = key,
                                    !.status = "NotImplementedError"]
  /\ UNCHANGED contexts

\* promote turning the object itself into a Span
PromoteInPlace(s) ==
  /\ Idle
  /\ spans' = [spans EXCEPT ![s].cls = "Span"]
  /\ last' = [NoCall EXCEPT !.op = "promote", !.self = s, !.ref = s]
  /\ UNCHANGED contexts

Promote(s) ==
  /\ Idle
  /\ Len(spans) < MaxSpans
  /\ spans' = Append(spans, promote(spans[s]))
  /\ last' = [NoCall EXCEPT !.op = "promote", !.self = s, !.ref = Len(spans) + 1]
  /\ UNCHANGED contexts

Next ==
  \/ \E cls \in Classes, c \in CtxIds, cs, ce \in 0..(MaxTextLen - 1), m \in Metas :
       Construct(cls, c, cs, ce, m)
  \/ \E s \in SpanIds, ci \in -1..MaxTextLen : CharToWordIndex(s, ci)
  \/ \E s \in SpanIds, wi \in (-MaxTokens - 1)..MaxTokens : WordToCharIndex(s, wi)
  \/ \E s \in SpanIds : GetWordStart(s)
  \/ \E s \in SpanIds : GetWordEnd(s)
  \/ \E s \in SpanIds : GetN(s)
  \/ \E s \in SpanIds, a \in AttribNames : GetAttribTokens(s, a)
  \/ \E s \in SpanIds, a \in AttribNames, sep \in Seps : GetAttribSpan(s, a, sep)
  \/ \E s \in SpanIds, sep \in Seps : GetSpan(s, sep)
  \/ \E s, o \in SpanIds : Contains(s, o)
  \/ \E s, o \in SpanIds : Eq(s, o)
  \/ \E s \in SpanIds : Hash(s)
  \/ \E s \in SpanIds, key \in Keys : GetItem(s, key)
  \/ \E s \in SpanIds : Promote(s)
  \/ Return

Spec == Init /\ [][Next]_vars

----------------------------------------------------------------------------
(* Properties *)

Self == spans[last.self]
Result == spans[last.ref]
Offsets(sp) == contexts[sp.context].char_offsets
IsSliceCall == last.op = "__getitem__" /\ last.key.kind = "slice"
ValidRange(sp) ==
  0 <= sp.char_start /\ sp.char_start <= sp.char_end
    /\ sp.char_end < Len(contexts[sp.context].text)

\* the largest index i with co[i] <= ci, or -1 when there is none
FloorIndex(co, ci) ==
  IF ci < co[1] THEN -1
  ELSE CHOOSE i \in 0..(Len(co) - 1) :
         /\ co[i + 1] <= ci
         /\ \A j \in 0..(Len(co) - 1) : co[j + 1] <= ci => j <= i

\* C1: on strictly increasing non-empty char_offsets, char_to_word_index(ci)
\* returns the largest i with char_offsets[i] <= ci (n-1 at or past the last
\* offset) and -1 when ci is before char_offsets[0].
C1_CharToWordIndexIsFloor ==
  last.op = "char_to_word_index" =>
    /\ last.status = "ok"
    /\ last.int = FloorIndex(Offsets(Self), last.arg)
    /\ last.int + 1 < Len(Offsets(Self)) => last.arg < Offsets(Self)[last.int + 2]

\* a character strictly inside a token that is not the last one was mapped
C1_Witness ==
  /\ last.op = "char_to_word_index"
  /\ last.int >= 0 /\ last.int + 1 < Len(Offsets(Self))
  /\ Offsets(Self)[last.int + 1] < last.arg
  /\ last.arg < Offsets(Self)[last.int + 2]

\* C2: every span has char_start <= char_end, whatever slices and promotions
\* produced it.
C2_StartLeEnd == \A s \in SpanIds : spans[s].char_start <= spans[s].char_end

\* C3: s[start:stop] has char_start = s.char_start (+ start when given) and
\* char_end = s.char_end when stop is absent, s.char_start + stop - 1 when
\* stop >= 0, s.char_end + stop when stop < 0.
C3_SliceRange ==
  IsSliceCall =>
    /\ last.status = "ok"
    /\ Result.char_start =
         (IF IsNone(last.key.start) THEN Self.char_start
          ELSE Self.char_start + Val(last.key.start))
    /\ Result.char_end =
         (IF IsNone(last.key.stop) THEN Self.char_end
          ELSE IF Val(last.key.stop) >= 0 THEN Self.char_start + Val(last.key.stop) - 1
          ELSE Self.char_end + Val(last.key.stop))

\* a slice with start 1 and stop 2 gave the one character after char_start
C3_Witness ==
  /\ IsSliceCall
  /\ last.key.start = Some(1) /\ last.key.stop = Some(2)
  /\ Result.char_start = Self.char_start + 1
  /\ Result.char_end = Self.char_start + 1

\* C4 as stated: a slice always returns a transient span (TemporarySpan) on
\* the same unit with no metadata, also when a persisted Span is sliced.
C4_SliceAlwaysTransient ==
  IsSliceCall =>
    /\ Result.cls = "TemporarySpan"
    /\ Result.context = Self.context
    /\ Result.meta = "None"

\* C4 amended: a slice returns a span on the same unit with no metadata and
\* of the same form as the span sliced: transient from a TemporarySpan,
\* persisted form from a Span.
C4_SliceKeepsForm ==
  IsSliceCall =>
    /\ Result.cls = Self.cls
    /\ Result.context = Self.context
    /\ Result.meta = "None"

\* a persisted Span carrying metadata was sliced
C4_Witness ==
  IsSliceCall /\ Self.cls = "Span" /\ Self.meta = "m" /\ Result.cls = "Span"

\* C5: a slice key with a step fails and returns no span.
C5_StepRejected ==
  IsSliceCall /\ ~IsNone(last.key.step) => last.status # "ok" /\ last.ref = 0

\* C6: promote of a transient span returns a persisted-form span with the
\* same unit, char_start, char_end and metadata.
C6_PromoteCopies ==
  last.op = "promote" /\ Self.cls = "TemporarySpan" =>
    /\ Result.cls = "Span"
    /\ Result.context = Self.context
    /\ Result.char_start = Self.char_start
    /\ Result.char_end = Self.char_end
    /\ Result.meta = Self.meta

\* C7: char_to_word_index(word_to_char_index(wi)) = wi for every token index
\* wi in 0..n-1.
C7_RoundTrip ==
  \A s \in SpanIds : \A wi \in 0..(Len(Offsets(spans[s])) - 1) :
    /\ word_to_char_index(spans[s], wi).ok
    /\ char_to_word_index(spans[s], word_to_char_index(spans[s], wi).val) = wi

\* the start offset of a token other than the first was mapped back to it
C7_Witness ==
  /\ last.op = "char_to_word_index"
  /\ last.int >= 1
  /\ word_to_char_index(Self, last.int).ok
  /\ word_to_char_index(Self, last.int).val = last.arg

\* C8: word_to_char_index(wi) returns char_offsets[wi] for 0 <= wi < n and
\* fails with an out-of-range error for every other wi, negative ones included.
C8_IndexChecked ==
  last.op = "word_to_char_index" =>
    IF 0 <= last.arg /\ last.arg < Len(Offsets(Self))
    THEN last.status = "ok" /\ last.int = Offsets(Self)[last.arg + 1]
    ELSE last.status = "IndexError"

\* C9: for a span inside the text, get_attrib_tokens(a) returns the attribute
\* values at token indices get_word_start()..get_word_end(), exactly
\* get_n() = get_word_end() - get_word_start() + 1 of them.
C9_AttribTokensMatchWordRange ==
  last.op = "get_attrib_tokens" /\ HasAttrib(last.name) /\ ValidRange(Self) =>
    LET ws == get_word_start(Self)
        we == get_word_end(Self)
        attr == Attrib(contexts[Self.context], last.name)
    IN /\ last.status = "ok"
       /\ Len(last.seq) = get_n(Self)
       /\ Len(last.seq) = we - ws + 1
       /\ \A j \in 1..Len(last.seq) :
            /\ 0 <= ws + j - 1 /\ ws + j - 1 < Len(attr)
            /\ last.seq[j] = attr[ws + j]

====
